---- MODULE Spec2Model ----
(***************************************************************************)
(* Model of the PYUSD cross-chain transfer CLI: mesh routing               *)
(* (src/src/lib/chains.ts), the OFT library (lib/oft), the OFT transfer    *)
(* command (src/src/commands/transfer.ts), the Stargate transfer command   *)
(* and library (lib/stargate, commands/transfer of the Stargate variant),  *)
(* the slippage computations and the status command                        *)
(* (src/src/commands/send.ts).                                             *)
(***************************************************************************)
EXTENDS Integers, Sequences, FiniteSets, TLC

\* ------------------------------------------------------------------------
\* Bounds of the model
\* ------------------------------------------------------------------------
\* largest token amount (base units) an input, a balance or a small
\* allowance takes
MaxAmount == 2
\* width of the uint256 of the ERC-20 allowance, scaled down
UintBits == 8
\* most steps a Stargate quote carries
MaxSteps == 2

\* ------------------------------------------------------------------------
\* Chain keys
\* ------------------------------------------------------------------------
\* keys the configuration file may hold (lower case, as written by the
\* metadata fetcher)
Chains == {"ethereum", "arbitrum", "polygon"}
\* keys a caller may type on the command line
InputKeys == {"ethereum", "arbitrum", "Arbitrum", "polygon", "POLYGON", "sei",
              "constructor"}

\* String.prototype.toLowerCase on the keys above
toLowerCase(k) ==
  CASE k = "Arbitrum" -> "arbitrum"
    [] k = "POLYGON" -> "polygon"
    [] OTHER -> k

Networks == {"pyusd", "pyusd0"}

\* one entry of config/chains.json: the fields of ConfigFileChain that the
\* transfer uses; a chain that is in both meshes has a different bridging
\* contract in each
ConfigFileChain(network, chainKey) ==
  [name |-> chainKey,
   tokenAddress |-> <<"token", network, chainKey>>,
   oftAddress |-> <<"oft", network, chainKey>>]

\* a ConfigFile whose pyusd table holds the chains A and whose pyusd0 table
\* holds the chains B
ConfigFile(A, B) ==
  [pyusd |-> [k \in A |-> ConfigFileChain("pyusd", k)],
   pyusd0 |-> [k \in B |-> ConfigFileChain("pyusd0", k)]]

\* the topology the README documents: Arbitrum is in both meshes
ReadmeConfig == ConfigFile({"ethereum", "arbitrum"}, {"arbitrum", "polygon"})

VARIABLES
  cachedRawConfig,  \* chains.ts: the parsed config file, set at module load
  resolved,         \* the last call of resolveChainConfigsForTransfer
  computed,         \* the last call of a slippage or quote-fetching function
  approvalRequired, \* on chain: approvalRequired() of the bridging contract
  tokenIsOft,       \* on chain: the bridging contract is itself the token
  allowance,        \* on chain: allowance(owner, bridging contract)
  balance,          \* on chain: balanceOf(owner) of the underlying token
  txs,              \* per run: the transactions it submitted, with status
  run,              \* per run: position and locals of the command
  log               \* per run: the network calls issued, in order

vars == <<cachedRawConfig, resolved, computed, approvalRequired, tokenIsOft,
          allowance, balance, txs, run, log>>

\* ------------------------------------------------------------------------
\* chains.ts
\* ------------------------------------------------------------------------
Ok(v) == [tag |-> "ok", value |-> v]
Thrown(e) == [tag |-> "err", error |-> e]
Null == [tag |-> "null"]

\* The tables are plain objects ({} and the result of JSON.parse), so
\* table[key] finds the members of Object.prototype as well as the table's
\* own keys. Of the keys typed, "constructor" names such a member.
ObjectPrototypeKeys == {"constructor"}

\* Object.prototype.constructor, the function Object, read as an entry of
\* a table: its name is "Object", and it has none of the other fields
ObjectConstructor ==
  [chainKey |-> "undefined", name |-> "Object", tokenAddress |-> "undefined",
   oftAddress |-> "undefined", network |-> "undefined"]

\* table[key] is truthy: every own entry is an object
Truthy(table, key) == key \in DOMAIN table \/ key \in ObjectPrototypeKeys

\* table[key], where it is truthy
Member(table, key) ==
  IF key \in DOMAIN table THEN table[key] ELSE ObjectConstructor

buildChainConfig(chainKey, chain, network) ==
  [chainKey |-> chainKey,
   name |-> chain.name,
   tokenAddress |-> chain.tokenAddress,
   oftAddress |-> chain.oftAddress,
   network |-> network]

\* mutant: the PYUSD0 table takes precedence for a chain in both meshes
loadChainConfigs_pyusd0First(raw) ==
  [k \in (DOMAIN raw.pyusd) \cup (DOMAIN raw.pyusd0) |->
     IF k \in DOMAIN raw.pyusd0
       THEN buildChainConfig(k, raw.pyusd0[k], "pyusd0")
       ELSE buildChainConfig(k, raw.pyusd[k], "pyusd")]

\* PYUSD chains first, PYUSD0 chains only where the key is not loaded yet
loadChainConfigs(raw) ==
  [k \in (DOMAIN raw.pyusd) \cup (DOMAIN raw.pyusd0) |->
     IF k \in DOMAIN raw.pyusd
       THEN buildChainConfig(k, raw.pyusd[k], "pyusd")
       ELSE buildChainConfig(k, raw.pyusd0[k], "pyusd0")]

CHAIN_CONFIGS == loadChainConfigs(cachedRawConfig)

\* const config = CHAIN_CONFIGS[chainKey.toLowerCase()]; if (!config) throw
getChainConfig(chainKey) ==
  IF Truthy(CHAIN_CONFIGS, toLowerCase(chainKey))
    THEN Ok(Member(CHAIN_CONFIGS, toLowerCase(chainKey)))
    ELSE Thrown("not supported")

NetworkTable(network) ==
  IF network = "pyusd" THEN cachedRawConfig.pyusd ELSE cachedRawConfig.pyusd0

\* mutant: the flattened table, with its PYUSD precedence, is consulted
getChainConfigForNetwork_defaultPrecedence(chainKey, network) ==
  IF ~Truthy(NetworkTable(network), toLowerCase(chainKey))
    THEN Null
    ELSE Ok(Member(CHAIN_CONFIGS, toLowerCase(chainKey)))

\* const chain = chains[chainKey.toLowerCase()]; if (!chain) return null
getChainConfigForNetwork(chainKey, network) ==
  IF ~Truthy(NetworkTable(network), toLowerCase(chainKey))
    THEN Null
    ELSE Ok(buildChainConfig(toLowerCase(chainKey),
                             Member(NetworkTable(network),
                                    toLowerCase(chainKey)),
                             network))

\* the final "standard resolution": each key by itself, PYUSD first
DefaultResolution(srcKey, dstKey) ==
  LET s == getChainConfig(srcKey)
      d == getChainConfig(dstKey)
  IN IF s.tag = "err" THEN s
     ELSE IF d.tag = "err" THEN d
     ELSE Ok([srcConfig |-> s.value, dstConfig |-> d.value])

\* both endpoints looked up in one network's table
NetworkResolution(srcKey, dstKey, network) ==
  LET s == getChainConfigForNetwork(srcKey, network)
      d == getChainConfigForNetwork(dstKey, network)
  IN IF s.tag = "ok" /\ d.tag = "ok"
       THEN Ok([srcConfig |-> s.value, dstConfig |-> d.value])
       ELSE Null

\* cachedRawConfig is set by loadChainConfigs at module load (a missing or
\* unparsable file ends the process there), so the !cachedRawConfig branch
\* is never taken and is left out.
resolveChainConfigsForTransfer(sourceKey, destKey) ==
  LET srcKey == toLowerCase(sourceKey)
      dstKey == toLowerCase(destKey)
      dstInPyusd == Truthy(cachedRawConfig.pyusd, dstKey)
      dstInPyusd0 == Truthy(cachedRawConfig.pyusd0, dstKey)
      in0 == NetworkResolution(srcKey, dstKey, "pyusd0")
      in1 == NetworkResolution(srcKey, dstKey, "pyusd")
  IN IF ~dstInPyusd /\ dstInPyusd0 /\ in0.tag = "ok" THEN in0
     ELSE IF dstInPyusd /\ ~dstInPyusd0 /\ in1.tag = "ok" THEN in1
     ELSE DefaultResolution(srcKey, dstKey)

\* mesh membership of a typed key
InPyusd(k) == toLowerCase(k) \in DOMAIN cachedRawConfig.pyusd
InPyusd0(k) == toLowerCase(k) \in DOMAIN cachedRawConfig.pyusd0


\* ------------------------------------------------------------------------
\* Values shared by the commands
\* ------------------------------------------------------------------------
Runs == {1, 2}

\* 2n ** 256n - 1n, at the scaled width
maxApproval == 2 ^ UintBits - 1

Amounts == 0 .. MaxAmount

\* --slippage, in thousandths of a percent: "0", "0.5", "50"
SlippageInputs == {0, 500, 50000}

\* utils/format calculateMinAmount, which prepareSendParam calls:
\* floor(amount * (10000 - round(slippagePercent * 100)) / 10000)
calculateMinAmount(amountLD, slippageMilli) ==
  (amountLD * (10000 - ((slippageMilli + 5) \div 10))) \div 10000

\* send-preparation.ts: the amounts of the SendParam
prepareSendParam(amountLD, slippageMilli) ==
  [amountLD |-> amountLD,
   minAmountLD |-> calculateMinAmount(amountLD, slippageMilli)]

\* --slippage values, in thousandths of a percent, whose product with 100
\* in double precision falls just below the integer it equals in exact
\* arithmetic: 0.29 * 100 is 28.999999999999996, 0.57 * 100 is
\* 56.99999999999999, and so on for "0.58" and "1.15"
InexactBelow == {290, 570, 580, 1150}

\* Math.floor(slippagePercent * 100) on the double that
\* Number.parseFloat gave
floorBps(slippageMilli) ==
  IF slippageMilli \in InexactBelow
    THEN (slippageMilli \div 10) - 1
    ELSE slippageMilli \div 10

\* the division of two BigInts, which truncates towards zero
BigIntDiv(a, b) == IF a >= 0 THEN a \div b ELSE -((-a) \div b)

\* mutant: the slippage is added
calculateStargateMinAmount_added(amount, slippageMilli) ==
  BigIntDiv(amount * (10000 + floorBps(slippageMilli)), 10000)

\* lib/stargate calculateMinAmount(amount, slippagePercent)
calculateStargateMinAmount(amount, slippageMilli) ==
  BigIntDiv(amount * (10000 - floorBps(slippageMilli)), 10000)

\* Stargate transferCommand: slippageBps and minAmountLD
StargateMinAmount(amountLD, slippageMilli) ==
  BigIntDiv(amountLD * (10000 - floorBps(slippageMilli)), 10000)

\* Stargate quoteCommand: slippageBps and minAmountLD
QuoteMinAmount(amountLD, slippageMilli) ==
  BigIntDiv(amountLD * (10000 - floorBps(slippageMilli)), 10000)

\* stage of the command that a position belongs to
StageOf(pc) ==
  CASE pc \in {"getTokenAddress", "getBalance", "sg_balance"} -> "balance"
    [] pc \in {"isApprovalRequired", "ca_getTokenAddress", "getAllowance",
               "approve_write", "approve_wait"} -> "approval"
    [] pc \in {"quoteSend_fee", "quoteSend_oft", "sg_fetchQuote"} -> "quote"
    [] pc \in {"send_write", "send_wait", "sg_sendTransaction", "sg_wait"}
         -> "send"
    [] OTHER -> "none"

NoValue == -1

OffRun ==
  [kind |-> "none", pc |-> "off", outcome |-> "none",
   srcConfig |-> Null, dstConfig |-> Null,
   amountLD |-> 0, minAmountLD |-> 0, dryRun |-> FALSE,
   tokenAddress |-> "none", balance |-> NoValue,
   callNo |-> 0, needsApproval |-> "unread", currentAllowance |-> NoValue,
   allowanceReads |-> <<>>, approvalResults |-> <<>>, hash |-> 0,
   messagingFee |-> "none", amountReceivedLD |-> NoValue, quote |-> Null,
   steps |-> <<>>, i |-> 0, txHashes |-> <<>>, finalTxHash |-> 0,
   shownTxHash |-> 0, shownGuid |-> "none", shownLink |-> FALSE,
   statusResponse |-> Null, shownStatus |-> "none",
   sgResult |-> Null, reportedCompleted |-> <<>>,
   failedAt |-> <<>>, entered |-> <<>>, completed |-> {}]

ReadyRun == [OffRun EXCEPT !.pc = "ready"]

\* move to another position, noting the stage left and the stage entered
Goto(rec, newpc) ==
  [rec EXCEPT
     !.pc = newpc,
     !.completed = IF StageOf(newpc) # StageOf(rec.pc)
                     THEN @ \cup ({StageOf(rec.pc)} \ {"none"}) ELSE @,
     !.entered = IF StageOf(newpc) \notin {StageOf(rec.pc), "none"}
                   THEN Append(@, StageOf(newpc)) ELSE @]

\* the command ends here: process.exit(1), or a return
Exit(rec, outcome) == [rec EXCEPT !.pc = "exit", !.outcome = outcome]

\* the call that run r is issuing failed: a rejected read, a rejected
\* submission, a rejected confirmation wait; its place in the log is noted
Failed(r) == [run[r] EXCEPT !.failedAt = Append(@, Len(log[r]) + 1)]

\* the arguments of a call that the properties look at: the contract
\* called, the spender of an approval, and the amounts
NoArgs ==
  [address |-> "none", spender |-> "none", amountLD |-> NoValue,
   minAmountLD |-> NoValue]

\* a network call issued by run r, with its arguments
IssueWith(r, call, args) ==
  log' = [log EXCEPT ![r] =
            Append(@, [stage |-> StageOf(run[r].pc), call |-> call,
                       n |-> run[r].callNo, args |-> args])]

\* a network call issued by run r
Issue(r, call) == IssueWith(r, call, NoArgs)

\* the address of the ERC-20 token the owner holds, as token() returns it
UnderlyingToken == IF tokenIsOft THEN "oft" ELSE "token"

ChainUnchanged == UNCHANGED <<cachedRawConfig, resolved, computed,
                              approvalRequired, tokenIsOft, allowance,
                              balance>>


\* ------------------------------------------------------------------------
\* Transactions and the chain
\* ------------------------------------------------------------------------
\* writeContract / sendTransaction returned a hash: the transaction is in
\* the pool; its hash is its index in txs[r]
Submit(r, type, step, amount) ==
  txs' = [txs EXCEPT ![r] =
            Append(@, [type |-> type, step |-> step, amount |-> amount,
                       status |-> "pending", events |-> <<>>,
                       minedAt |-> NoValue])]

NextHash(r) == Len(txs[r]) + 1

Submitted(r, type) == {h \in DOMAIN txs[r] : txs[r][h].type = type}

\* the bridging contract's send pulls amountLD from the owner; a Stargate
\* bridge step goes through Stargate's own contracts, whose allowance is
\* not the one modelled here
SendCanSucceed(amountLD) ==
  /\ balance >= amountLD
  /\ approvalRequired => allowance >= amountLD

\* the OFTSent events that the receipt of a send transaction can hold, by
\* their guids: none, one, or two
ReceiptEvents == {<<>>, <<"guidA">>, <<"guidB", "guidA">>}

\* A pending transaction is mined, successfully or reverted.
\* approve(spender, amount) sets the allowance; send moves the tokens and
\* emits OFTSent, which the receipt may or may not hold for the parser.
Mine(r, h) ==
  /\ h \in DOMAIN txs[r]
  /\ txs[r][h].status = "pending"
  /\ LET tx == txs[r][h]
         at == Len(log[r])
     IN \/ /\ tx.type = "approve"
           /\ \E ok \in BOOLEAN :
                /\ txs' = [txs EXCEPT ![r][h].status =
                             IF ok THEN "success" ELSE "reverted",
                                      ![r][h].minedAt = at]
                /\ allowance' = IF ok THEN tx.amount ELSE allowance
           /\ UNCHANGED balance
        \/ /\ tx.type = "send" \/ (tx.type = "step" /\ tx.step = "bridge")
           /\ \E ok \in BOOLEAN, events \in ReceiptEvents :
                /\ ok => IF tx.type = "send" THEN SendCanSucceed(tx.amount)
                         ELSE balance >= tx.amount
                /\ events # <<>> => ok /\ tx.type = "send"
                /\ txs' = [txs EXCEPT ![r][h].status =
                             IF ok THEN "success" ELSE "reverted",
                                      ![r][h].events = events,
                                      ![r][h].minedAt = at]
                /\ balance' = IF ok THEN balance - tx.amount ELSE balance
                /\ allowance' =
                     IF ok /\ tx.type = "send" /\ approvalRequired
                           /\ allowance # maxApproval
                       THEN allowance - tx.amount ELSE allowance
        \/ /\ tx.type = "step" /\ tx.step # "bridge"
           /\ \E ok \in BOOLEAN :
                txs' = [txs EXCEPT ![r][h].status =
                          IF ok THEN "success" ELSE "reverted",
                                   ![r][h].minedAt = at]
           /\ UNCHANGED <<allowance, balance>>
  /\ UNCHANGED <<cachedRawConfig, resolved, computed, approvalRequired,
                 tokenIsOft, run, log>>


\* ------------------------------------------------------------------------
\* lib/oft: the reads and writes, one action per suspension point
\* ------------------------------------------------------------------------
\* mutant: the comparison is off by one
InsufficientBalance_offByOne(bal, amountLD) == bal + 1 < amountLD

\* balance < amountLD: the command stops with "Insufficient balance"
InsufficientBalance(bal, amountLD) == bal < amountLD

\* mutant: the early return is missing
NoApprovalNeeded_never(needsApproval) == FALSE

\* checkAndApprove: approvalRequired() returned false, nothing to do
NoApprovalNeeded(needsApproval) == ~needsApproval

\* mutant: the comparison is inverted
AllowanceSufficient_inverted(currentAllowance, amount) ==
  currentAllowance <= amount

\* checkAndApprove: the allowance already covers the amount
AllowanceSufficient(currentAllowance, amount) == currentAllowance >= amount

\* mutant: the flag is ignored
SkipSend_never(dryRun) == FALSE

\* --dry-run: stop before the send
SkipSend(dryRun) == dryRun

\* mutant: the transfer command sends right after the approval
AfterCheckAndApprove_noQuote(rec) ==
  IF rec.kind = "oft" THEN "send_write"
  ELSE IF rec.callNo = 1 THEN "isApprovalRequired" ELSE "exit"

\* where the caller of checkAndApprove goes on after it returned: the
\* transfer command gets its quote; the harness of two successive calls
\* makes the second call, then ends
AfterCheckAndApprove(rec) ==
  IF rec.kind = "oft" THEN "quoteSend_fee"
  ELSE IF rec.callNo = 1 THEN "isApprovalRequired" ELSE "exit"

\* checkAndApprove returns res to its caller
ReturnFromCheckAndApprove(rec, res) ==
  LET rec1 == [rec EXCEPT !.approvalResults = Append(@, res)]
      to == AfterCheckAndApprove(rec1)
  IN IF to = "exit" THEN Exit(rec1, "called")
     ELSE IF rec1.kind = "oft" THEN Goto(rec1, to)
     ELSE [Goto(rec1, to) EXCEPT !.callNo = 2, !.needsApproval = "unread",
                                  !.currentAllowance = NoValue]

\* mutant: a failed confirmation wait submits the approval again
ThrowFromCheckAndApprove_retry(rec) ==
  IF rec.kind = "oft"
    THEN IF rec.pc = "approve_wait" THEN Goto(rec, "approve_write")
         ELSE Exit(rec, "failed")
  ELSE ReturnFromCheckAndApprove(rec, [approved |-> "thrown", txHash |-> 0])

\* checkAndApprove throws: the transfer command reports "Transaction
\* failed" and exits; the harness goes on to its second call
ThrowFromCheckAndApprove(rec) ==
  IF rec.kind = "oft" THEN Exit(rec, "failed")
  ELSE ReturnFromCheckAndApprove(rec, [approved |-> "thrown", txHash |-> 0])

\* getTokenAddress: token() read; a failed read is caught and the bridging
\* contract's own address returned
getTokenAddress(r) ==
  /\ run[r].pc \in {"getTokenAddress", "ca_getTokenAddress"}
  /\ Issue(r, "token")
  /\ \E readOk \in BOOLEAN :
       LET addr == IF readOk THEN UnderlyingToken ELSE "oft"
           to == IF run[r].pc = "getTokenAddress"
                   THEN "getBalance" ELSE "getAllowance"
       IN run' = [run EXCEPT ![r] =
                    Goto([(IF readOk THEN run[r] ELSE Failed(r))
                            EXCEPT !.tokenAddress = addr], to)]
  /\ UNCHANGED txs
  /\ ChainUnchanged

\* transferCommand step 1: getBalance, then the comparison with amountLD.
\* balanceOf on an address that is not the token reverts.
getBalance(r) ==
  /\ run[r].pc = "getBalance"
  /\ Issue(r, "balanceOf")
  /\ \E readOk \in BOOLEAN :
       IF ~readOk \/ run[r].tokenAddress # UnderlyingToken
         THEN run' = [run EXCEPT ![r] = Exit(Failed(r), "failed")]
         ELSE LET rec == [run[r] EXCEPT !.balance = balance]
              IN run' = [run EXCEPT ![r] =
                   IF InsufficientBalance(balance, rec.amountLD)
                     THEN Exit(rec, "insufficient_balance")
                     ELSE Goto(rec, "isApprovalRequired")]
  /\ UNCHANGED txs
  /\ ChainUnchanged

\* checkAndApprove: isApprovalRequired, then the early return
isApprovalRequired(r) ==
  /\ run[r].pc = "isApprovalRequired"
  /\ Issue(r, "approvalRequired")
  /\ \E readOk \in BOOLEAN :
       IF ~readOk
         THEN run' = [run EXCEPT ![r] = ThrowFromCheckAndApprove(Failed(r))]
         ELSE LET rec == [run[r] EXCEPT !.needsApproval =
                            IF approvalRequired THEN "yes" ELSE "no"]
              IN run' = [run EXCEPT ![r] =
                   IF NoApprovalNeeded(approvalRequired)
                     THEN ReturnFromCheckAndApprove(
                            rec, [approved |-> "false", txHash |-> 0])
                     ELSE Goto(rec, "ca_getTokenAddress")]
  /\ UNCHANGED txs
  /\ ChainUnchanged

\* checkAndApprove: getAllowance, then the comparison with amount
getAllowance(r) ==
  /\ run[r].pc = "getAllowance"
  /\ Issue(r, "allowance")
  /\ \E readOk \in BOOLEAN :
       IF ~readOk \/ run[r].tokenAddress # UnderlyingToken
         THEN run' = [run EXCEPT ![r] = ThrowFromCheckAndApprove(Failed(r))]
         ELSE LET rec == [run[r] EXCEPT
                            !.currentAllowance = allowance,
                            !.allowanceReads =
                               Append(@, [n |-> run[r].callNo,
                                          value |-> allowance])]
              IN run' = [run EXCEPT ![r] =
                   IF AllowanceSufficient(allowance, rec.amountLD)
                     THEN ReturnFromCheckAndApprove(
                            rec, [approved |-> "false", txHash |-> 0])
                     ELSE Goto(rec, "approve_write")]
  /\ UNCHANGED txs
  /\ ChainUnchanged

\* mutant: the exact amount is approved
approveArgs_exactAmount(rec) ==
  [address |-> rec.tokenAddress, spender |-> rec.srcConfig.value.oftAddress,
   amountLD |-> rec.amountLD, minAmountLD |-> NoValue]

\* checkAndApprove: approve(walletClient, publicClient, tokenAddress,
\* oftAddress, maxApproval)
approveArgs(rec) ==
  [address |-> rec.tokenAddress, spender |-> rec.srcConfig.value.oftAddress,
   amountLD |-> maxApproval, minAmountLD |-> NoValue]

\* approve: writeContract approve(spender, amount) on the token
approveWrite(r) ==
  /\ run[r].pc = "approve_write"
  /\ IssueWith(r, "approve", approveArgs(run[r]))
  /\ \/ /\ Submit(r, "approve", "none", approveArgs(run[r]).amountLD)
        /\ run' = [run EXCEPT ![r] =
                     Goto([run[r] EXCEPT !.hash = NextHash(r)],
                          "approve_wait")]
     \/ /\ run' = [run EXCEPT ![r] = ThrowFromCheckAndApprove(Failed(r))]
        /\ UNCHANGED txs
  /\ ChainUnchanged

\* approve: waitForTransactionReceipt returns once the transaction is
\* mined, whatever its status, or throws
approveWait(r) ==
  /\ run[r].pc = "approve_wait"
  /\ \/ /\ txs[r][run[r].hash].status # "pending"
        /\ run' = [run EXCEPT ![r] =
                     ReturnFromCheckAndApprove(
                       run[r], [approved |-> "true", txHash |-> run[r].hash])]
     \/ run' = [run EXCEPT ![r] = ThrowFromCheckAndApprove(Failed(r))]
  /\ Issue(r, "wait")
  /\ UNCHANGED txs
  /\ ChainUnchanged

\* quoteSend: readContract quoteSend(sendParam, false) on oftAddress
FeeReadArgs(rec) ==
  [address |-> rec.srcConfig.value.oftAddress, spender |-> "none",
   amountLD |-> rec.amountLD, minAmountLD |-> rec.minAmountLD]

\* mutant: the preview is asked with no minimum
PreviewReadArgs_noMinimum(rec) ==
  [address |-> rec.srcConfig.value.oftAddress, spender |-> "none",
   amountLD |-> rec.amountLD, minAmountLD |-> 0]

\* quoteSend: readContract quoteOFT(sendParam) on oftAddress
PreviewReadArgs(rec) ==
  [address |-> rec.srcConfig.value.oftAddress, spender |-> "none",
   amountLD |-> rec.amountLD, minAmountLD |-> rec.minAmountLD]

\* quoteSend: the messaging-fee read; a failed read throws out of
\* quoteSend into the catch of the command
quoteSendFee(r) ==
  /\ run[r].pc = "quoteSend_fee"
  /\ IssueWith(r, "quoteSend", FeeReadArgs(run[r]))
  /\ \E readOk \in BOOLEAN :
       run' = [run EXCEPT ![r] =
                 IF readOk
                   THEN Goto([run[r] EXCEPT !.messagingFee = "nativeFee"],
                             "quoteSend_oft")
                 ELSE Exit(Failed(r), "failed")]
  /\ UNCHANGED txs
  /\ ChainUnchanged

\* quoteSend: the quoteOFT read; then transferCommand prints the quote and
\* either ends the dry run or goes on to send
quoteSendOft(r) ==
  /\ run[r].pc = "quoteSend_oft"
  /\ IssueWith(r, "quoteOFT", PreviewReadArgs(run[r]))
  /\ \/ run' = [run EXCEPT ![r] = Exit(Failed(r), "failed")]
     \/ \E received \in 0 .. run[r].amountLD :
          LET rec == [run[r] EXCEPT
                        !.amountReceivedLD = received,
                        !.quote = Ok([messagingFee |-> run[r].messagingFee,
                                      amountReceivedLD |-> received])]
          IN run' = [run EXCEPT ![r] =
               IF SkipSend(rec.dryRun)
                 THEN Exit(Goto(rec, "exit"), "dry_run_complete")
                 ELSE Goto(rec, "send_write")]
  /\ UNCHANGED txs
  /\ ChainUnchanged

\* send: writeContract send(sendParam, fee, refundAddress) on oftAddress
sendArgs(rec) ==
  [address |-> rec.srcConfig.value.oftAddress, spender |-> "none",
   amountLD |-> rec.amountLD, minAmountLD |-> rec.minAmountLD]

\* send: writeContract send(sendParam, fee, refundAddress)
sendWrite(r) ==
  /\ run[r].pc = "send_write"
  /\ IssueWith(r, "send", sendArgs(run[r]))
  /\ \/ /\ Submit(r, "send", "none", run[r].amountLD)
        /\ run' = [run EXCEPT ![r] =
                     Goto([run[r] EXCEPT !.hash = NextHash(r)], "send_wait")]
     \/ /\ run' = [run EXCEPT ![r] = Exit(Failed(r), "failed")]
        /\ UNCHANGED txs
  /\ ChainUnchanged

\* mutant: the last OFTSent event is taken
parseGuid_last(events) ==
  IF Len(events) = 0 THEN "0x" ELSE events[Len(events)]

\* logs[0]?.args?.guid ?? '0x', on the OFTSent events of the receipt
parseGuid(events) == IF Len(events) = 0 THEN "0x" ELSE events[1]

\* transferCommand: if (guid !== '0x') the LayerZero link is printed
ShowTrackingLink(guid) == guid # "0x"

\* send: waitForTransactionReceipt, the OFTSent guid or '0x'; then
\* transferCommand prints the results
sendWait(r) ==
  /\ run[r].pc = "send_wait"
  /\ Issue(r, "wait")
  /\ \/ /\ txs[r][run[r].hash].status # "pending"
        /\ LET guid == parseGuid(txs[r][run[r].hash].events)
               rec == [run[r] EXCEPT !.shownTxHash = run[r].hash,
                                     !.shownGuid = guid,
                                     !.shownLink = ShowTrackingLink(guid)]
           IN run' = [run EXCEPT ![r] = Exit(Goto(rec, "exit"), "sent")]
     \/ run' = [run EXCEPT ![r] = Exit(Failed(r), "failed")]
  /\ UNCHANGED txs
  /\ ChainUnchanged


\* ------------------------------------------------------------------------
\* commands/transfer.ts (OFT): the command up to its first network call
\* ------------------------------------------------------------------------
\* <source> <destination> pairs typed by the caller
RouteInputs == {<<"ethereum", "Arbitrum">>, <<"polygon", "arbitrum">>,
                <<"ethereum", "sei">>}

transferCommand(r) ==
  /\ run[r].pc = "ready"
  /\ \E privateKey \in BOOLEAN, route \in RouteInputs,
        amountLD \in 1 .. MaxAmount, slippage \in SlippageInputs,
        dryRun \in BOOLEAN :
       LET res == resolveChainConfigsForTransfer(route[1], route[2])
           sp == prepareSendParam(amountLD, slippage)
           rec == [run[r] EXCEPT !.kind = "oft"]
       IN run' = [run EXCEPT ![r] =
            IF ~privateKey THEN Exit(rec, "no_private_key")
            ELSE IF res.tag = "err" THEN Exit(rec, "route_error")
            ELSE Goto([rec EXCEPT !.srcConfig = Ok(res.value.srcConfig),
                                  !.dstConfig = Ok(res.value.dstConfig),
                                  !.amountLD = sp.amountLD,
                                  !.minAmountLD = sp.minAmountLD,
                                  !.dryRun = dryRun],
                      "getTokenAddress")]
  /\ UNCHANGED <<txs, log>>
  /\ ChainUnchanged

\* two successive calls of checkAndApprove by one caller, for the same
\* owner, bridging contract and amount
checkAndApproveTwice(r) ==
  /\ run[r].pc = "ready"
  /\ \E amount \in 1 .. MaxAmount :
       run' = [run EXCEPT ![r] =
                 Goto([run[r] EXCEPT !.kind = "twice", !.amountLD = amount,
                                     !.srcConfig = getChainConfig("ethereum"),
                                     !.callNo = 1],
                      "isApprovalRequired")]
  /\ UNCHANGED <<txs, log>>
  /\ ChainUnchanged

\* ------------------------------------------------------------------------
\* lib/stargate and the Stargate transfer command
\* ------------------------------------------------------------------------
StepTypes == {"approve", "bridge"}
StepSeqs == UNION {[1 .. n -> StepTypes] : n \in 0 .. MaxSteps}

\* a candidate of the quotes response: whether it carries an error, whether
\* srcAmount and dstAmount are populated, and its steps. The candidates are
\* the complete ones with any steps, and one for each single defect.
Candidates ==
  {[error |-> FALSE, amounts |-> TRUE, steps |-> s] : s \in StepSeqs}
  \cup {[error |-> TRUE, amounts |-> TRUE, steps |-> <<"bridge">>],
        [error |-> FALSE, amounts |-> FALSE, steps |-> <<"bridge">>]}

\* most candidates in one response
MaxQuotes == 2

\* what fetch can produce: a thrown network error, a non-OK status, or a
\* JSON body with the quotes list
Responses ==
  {[kind |-> "network_error", quotes |-> <<>>],
   [kind |-> "not_ok", quotes |-> <<>>],
   [kind |-> "bad_json", quotes |-> <<>>]}
  \cup {[kind |-> "json", quotes |-> qs] :
          qs \in UNION {[1 .. n -> Candidates] : n \in 0 .. MaxQuotes}}

\* mutant: a candidate with no steps passes the filter
ValidQuote_anySteps(q) == ~q.error /\ q.amounts

\* the filter: !q.error && q.srcAmount && q.dstAmount && q.steps?.length > 0
ValidQuote(q) == ~q.error /\ q.amounts /\ Len(q.steps) > 0

\* a failure result
QuoteFailure(message) ==
  [success |-> FALSE, quotes |-> <<>>, error |-> message, bestQuote |-> Null]

\* the non-OK status, the missing or empty list, the filter, the first
\* valid candidate; a throw of fetch or of response.json() is caught
fetchStargateQuote(response) ==
  IF response.kind = "not_ok" THEN QuoteFailure("API Error")
  ELSE IF response.kind # "json" THEN QuoteFailure("thrown")
  ELSE IF Len(response.quotes) = 0 THEN QuoteFailure("No routes available")
  ELSE LET validQuotes == SelectSeq(response.quotes, ValidQuote)
           hasError(q) == q.error
       IN IF Len(validQuotes) = 0
            THEN QuoteFailure(
                   IF Len(SelectSeq(response.quotes, hasError)) > 0
                     THEN "candidate error"
                     ELSE "No valid routes available")
            ELSE [success |-> TRUE, quotes |-> validQuotes,
                  error |-> "none", bestQuote |-> Ok(validQuotes[1])]

\* --slippage of the Stargate command, which takes any number: the values
\* above, "-50" and "150"
StargateSlippageInputs == SlippageInputs \cup {-50000, 150000}

\* The Stargate command never reads the OFT contract's approvalRequired(),
\* token() or allowance, so its runs are explored from one value of each.
stargateTransferCommand(r) ==
  /\ run[r].pc = "ready"
  /\ ~approvalRequired /\ ~tokenIsOft /\ allowance = 0
  /\ \E privateKey \in BOOLEAN, route \in RouteInputs,
        amountLD \in 1 .. MaxAmount, slippage \in StargateSlippageInputs,
        dryRun \in BOOLEAN :
       LET res == resolveChainConfigsForTransfer(route[1], route[2])
           rec == [run[r] EXCEPT !.kind = "stargate"]
       IN run' = [run EXCEPT ![r] =
            IF res.tag = "err" THEN Exit(rec, "route_error")
            ELSE IF ~privateKey THEN Exit(rec, "no_private_key")
            ELSE Goto([rec EXCEPT !.srcConfig = Ok(res.value.srcConfig),
                                  !.dstConfig = Ok(res.value.dstConfig),
                                  !.amountLD = amountLD,
                                  !.minAmountLD =
                                     StargateMinAmount(amountLD, slippage),
                                  !.dryRun = dryRun],
                      "sg_balance")]
  /\ UNCHANGED <<txs, log>>
  /\ ChainUnchanged

\* step 1: balanceOf on srcConfig.tokenAddress, then the comparison
sgBalance(r) ==
  /\ run[r].pc = "sg_balance"
  /\ Issue(r, "balanceOf")
  /\ \E readOk \in BOOLEAN :
       IF ~readOk
         THEN run' = [run EXCEPT ![r] = Exit(Failed(r), "failed")]
         ELSE LET rec == [run[r] EXCEPT !.balance = balance]
              IN run' = [run EXCEPT ![r] =
                   IF InsufficientBalance(balance, rec.amountLD)
                     THEN Exit(rec, "insufficient_balance")
                     ELSE Goto(rec, "sg_fetchQuote")]
  /\ UNCHANGED txs
  /\ ChainUnchanged

\* step 2: fetchStargateQuote; then the quote check and the dry-run return
sgFetchQuote(r) ==
  /\ run[r].pc = "sg_fetchQuote"
  /\ IssueWith(r, "fetchQuote",
               [address |-> "stargate", spender |-> "none",
                amountLD |-> run[r].amountLD,
                minAmountLD |-> run[r].minAmountLD])
  /\ \E response \in Responses :
       LET quoteResult == fetchStargateQuote(response)
       IN run' = [run EXCEPT ![r] =
            IF ~quoteResult.success \/ quoteResult.bestQuote.tag # "ok"
              THEN Exit(run[r], "quote_failed")
            ELSE LET rec == [run[r] EXCEPT
                               !.steps = quoteResult.bestQuote.value.steps]
                 IN IF SkipSend(rec.dryRun)
                      THEN Exit(Goto(rec, "exit"), "dry_run_complete")
                      ELSE Goto(rec, "sg_sendTransaction")]
  /\ UNCHANGED txs
  /\ ChainUnchanged

\* mutant: the steps are taken from the end of the quote
StepAt_reversed(rec) == rec.steps[Len(rec.steps) - rec.i]

\* const step = quote.steps[i]
StepAt(rec) == rec.steps[rec.i + 1]

\* mutant: the hash of the last step is returned whatever its type
FinalTxHash_alwaysLast(rec) == rec.txHashes[Len(rec.txHashes)]

\* finalTxHash || txHashes[txHashes.length - 1]
FinalTxHash(rec) ==
  IF rec.finalTxHash # 0 THEN rec.finalTxHash
  ELSE rec.txHashes[Len(rec.txHashes)]

\* mutant: the loop does not advance
NextStepIndex_same(i) == i

\* for (let i = 0; i < quote.steps.length; i++)
NextStepIndex(i) == i + 1

\* the catch of executeStargateTransfer: the failure result, which has no
\* finalTxHash; the command then reports result.txHashes as "Completed
\* transactions" and exits
StargateFailure(rec) ==
  Exit([rec EXCEPT !.sgResult =
                      [success |-> FALSE, txHashes |-> rec.txHashes,
                       finalTxHash |-> 0, error |-> "message"],
                   !.reportedCompleted = rec.txHashes],
       "transfer_failed")

\* executeStargateTransfer: sendTransaction of step i, txHashes.push(hash);
\* a throw is caught and returned as a failure, on which the command exits
sgSendTransaction(r) ==
  /\ run[r].pc = "sg_sendTransaction"
  /\ Issue(r, "sendTransaction")
  /\ \/ /\ Submit(r, "step", StepAt(run[r]), run[r].amountLD)
        /\ run' = [run EXCEPT ![r] =
                     Goto([run[r] EXCEPT !.hash = NextHash(r),
                                         !.txHashes = Append(@, NextHash(r))],
                          "sg_wait")]
     \/ /\ run' = [run EXCEPT ![r] = StargateFailure(Failed(r))]
        /\ UNCHANGED txs
  /\ ChainUnchanged

\* executeStargateTransfer: waitForTransactionReceipt of step i, the bridge
\* hash kept, then the next step or the successful return, after which the
\* command prints the hashes and the link
sgWait(r) ==
  /\ run[r].pc = "sg_wait"
  /\ Issue(r, "wait")
  /\ \/ /\ txs[r][run[r].hash].status # "pending"
        /\ LET rec == [run[r] EXCEPT
                         !.finalTxHash =
                            IF StepAt(run[r]) = "bridge"
                              THEN run[r].hash ELSE @,
                         !.i = NextStepIndex(@)]
               result == [success |-> TRUE, txHashes |-> rec.txHashes,
                          finalTxHash |-> FinalTxHash(rec),
                          error |-> "none"]
           IN run' = [run EXCEPT ![r] =
                IF rec.i < Len(rec.steps)
                  THEN Goto(rec, "sg_sendTransaction")
                  ELSE Exit(Goto([rec EXCEPT
                                    !.sgResult = result,
                                    !.shownTxHash = result.finalTxHash],
                                 "exit"),
                            "sent")]
     \/ run' = [run EXCEPT ![r] = StargateFailure(Failed(r))]
  /\ UNCHANGED txs
  /\ ChainUnchanged

\* ------------------------------------------------------------------------
\* commands/send.ts: the status command
\* ------------------------------------------------------------------------
\* status.name of a LayerZero message: the names the command has an
\* indicator for, one it has none for, and one that is the name of a
\* member of Object.prototype
StatusNames ==
  {"CONFIRMING", "INFLIGHT", "DELIVERED", "FAILED", "BLOCKED",
   "PAYLOAD_STORED", "VERIFYING", "constructor"}

\* a LayerZeroMessage: its status name and whether destination.tx is there
StatusMessages == [name : StatusNames, destinationTx : BOOLEAN]

\* what the fetch of scan.layerzero-api.com can produce: a thrown network
\* error, a non-OK status, or a JSON body, with or without its data list,
\* which holds no message, one message, or a second one after it
StatusResponses ==
  {[kind |-> "network_error", hasData |-> FALSE, data |-> <<>>],
   [kind |-> "not_ok", hasData |-> FALSE, data |-> <<>>],
   [kind |-> "json", hasData |-> FALSE, data |-> <<>>],
   [kind |-> "json", hasData |-> TRUE, data |-> <<>>]}
  \cup {[kind |-> "json", hasData |-> TRUE, data |-> <<m>>] :
          m \in StatusMessages}
  \cup {[kind |-> "json", hasData |-> TRUE,
          data |-> <<m, [name |-> "DELIVERED", destinationTx |-> TRUE]>>] :
          m \in StatusMessages}

\* formatStatus: statusIndicators[status] || status. The table is a plain
\* object, so the name of a member of Object.prototype finds that member,
\* which the template literal prints as the function's source text.
formatStatus(status) ==
  CASE status = "DELIVERED" -> "+ DELIVERED"
    [] status = "INFLIGHT" -> "~ INFLIGHT"
    [] status = "CONFIRMING" -> "~ CONFIRMING"
    [] status = "FAILED" -> "x FAILED"
    [] status = "BLOCKED" -> "! BLOCKED"
    [] status = "PAYLOAD_STORED" -> "# PAYLOAD_STORED"
    [] status \in ObjectPrototypeKeys -> "function Object() { [native code] }"
    [] OTHER -> status

\* mutant: an empty list is not told apart
NoMessageFound_never(response) == FALSE

\* !data.data || data.data.length === 0
NoMessageFound(response) == ~response.hasData \/ Len(response.data) = 0

\* The status command reads nothing of the chain, so its runs are explored
\* from one state of the chain.
statusCommand(r) ==
  /\ run[r].pc = "ready"
  /\ ~approvalRequired /\ ~tokenIsOft /\ allowance = 0 /\ balance = 0
  /\ run' = [run EXCEPT ![r] =
               Goto([run[r] EXCEPT !.kind = "status"], "st_fetch")]
  /\ UNCHANGED <<txs, log>>
  /\ ChainUnchanged

\* fetch, the response.ok test, response.json(), the empty-list return and
\* the printing of data.data[0]; every throw ends in process.exit(1)
statusFetch(r) ==
  /\ run[r].pc = "st_fetch"
  /\ Issue(r, "fetchStatus")
  /\ \E response \in StatusResponses :
       LET rec == [run[r] EXCEPT !.statusResponse = response]
       IN run' = [run EXCEPT ![r] =
            IF response.kind # "json" THEN Exit(rec, "status_failed")
            ELSE IF NoMessageFound(response) THEN Exit(rec, "not_found")
            ELSE IF ~response.hasData \/ Len(response.data) = 0
              THEN Exit(rec, "status_failed")
            ELSE Exit([rec EXCEPT !.shownStatus =
                                     formatStatus(response.data[1].name)],
                      "status_shown")]
  /\ UNCHANGED txs
  /\ ChainUnchanged

\* the outcomes with which a command ends through process.exit(1)
FailureOutcomes ==
  {"no_private_key", "route_error", "insufficient_balance", "failed",
   "quote_failed", "transfer_failed", "status_failed"}

\* ------------------------------------------------------------------------
\* Specifications
\* ------------------------------------------------------------------------
\* one command run against a chain in any state
Init ==
  /\ cachedRawConfig = ReadmeConfig
  /\ resolved = [tag |-> "none"]
  /\ computed = [fn |-> "none"]
  /\ approvalRequired \in BOOLEAN
  /\ tokenIsOft \in BOOLEAN
  /\ allowance \in Amounts \cup {maxApproval}
  /\ balance \in Amounts
  /\ txs = [r \in Runs |-> <<>>]
  /\ run = [r \in Runs |-> IF r = 1 THEN ReadyRun ELSE OffRun]
  /\ log = [r \in Runs |-> <<>>]

Next ==
  \E r \in Runs :
    \/ transferCommand(r)
    \/ checkAndApproveTwice(r)
    \/ stargateTransferCommand(r)
    \/ getTokenAddress(r)
    \/ getBalance(r)
    \/ isApprovalRequired(r)
    \/ getAllowance(r)
    \/ approveWrite(r)
    \/ approveWait(r)
    \/ quoteSendFee(r)
    \/ quoteSendOft(r)
    \/ sendWrite(r)
    \/ sendWait(r)
    \/ sgBalance(r)
    \/ sgFetchQuote(r)
    \/ sgSendTransaction(r)
    \/ sgWait(r)
    \/ statusCommand(r)
    \/ statusFetch(r)
    \/ \E h \in 1 .. (MaxSteps + 2) : Mine(r, h)

Spec == Init /\ [][Next]_vars

\* the network calls of run r: every await of a command
NetworkCall(r) ==
  \/ getTokenAddress(r)
  \/ getBalance(r)
  \/ isApprovalRequired(r)
  \/ getAllowance(r)
  \/ approveWrite(r)
  \/ approveWait(r)
  \/ quoteSendFee(r)
  \/ quoteSendOft(r)
  \/ sendWrite(r)
  \/ sendWait(r)
  \/ sgBalance(r)
  \/ sgFetchQuote(r)
  \/ sgSendTransaction(r)
  \/ sgWait(r)
  \/ statusFetch(r)

\* one command run in which every network call eventually returns or
\* fails: the promise awaited is settled, so the step after the await is
\* taken. Nothing is assumed of the chain: a transaction may stay pending
\* for ever, and then the confirmation wait ends by failing.
SpecLive == Init /\ [][Next]_vars /\ \A r \in Runs : WF_vars(NetworkCall(r))

\* resolveChainConfigsForTransfer on any configuration and any pair of keys
InitRoute ==
  /\ cachedRawConfig \in {ConfigFile(A, B) : A \in SUBSET Chains,
                                             B \in SUBSET Chains}
  /\ resolved = [tag |-> "none"]
  /\ computed = [fn |-> "none"]
  /\ approvalRequired = FALSE
  /\ tokenIsOft = FALSE
  /\ allowance = 0
  /\ balance = 0
  /\ txs = [r \in Runs |-> <<>>]
  /\ run = [r \in Runs |-> OffRun]
  /\ log = [r \in Runs |-> <<>>]

ResolveCall ==
  /\ \E sourceKey \in InputKeys, destKey \in InputKeys :
       resolved' = [tag |-> "call", sourceKey |-> sourceKey,
                    destKey |-> destKey,
                    result |-> resolveChainConfigsForTransfer(sourceKey,
                                                              destKey)]
  /\ UNCHANGED <<cachedRawConfig, computed, approvalRequired, tokenIsOft,
                 allowance, balance, txs, run, log>>

\* getChainConfig on any configuration and any key
LookupCall ==
  /\ \E chainKey \in InputKeys :
       resolved' = [tag |-> "lookup", chainKey |-> chainKey,
                    result |-> getChainConfig(chainKey)]
  /\ UNCHANGED <<cachedRawConfig, computed, approvalRequired, tokenIsOft,
                 allowance, balance, txs, run, log>>

NextRoute == ResolveCall \/ LookupCall

SpecRoute == InitRoute /\ [][NextRoute]_vars

\* two transfer commands started by the same owner, as two processes
\* against one chain, followed to the end of their approval stage: nothing
\* in the program orders the network calls of one against those of the
\* other
InitRace ==
  /\ cachedRawConfig = ReadmeConfig
  /\ resolved = [tag |-> "none"]
  /\ computed = [fn |-> "none"]
  /\ approvalRequired = TRUE
  /\ tokenIsOft = FALSE
  /\ allowance \in {0, 1}
  /\ balance = MaxAmount
  /\ txs = [r \in Runs |-> <<>>]
  /\ run = [r \in Runs |-> ReadyRun]
  /\ log = [r \in Runs |-> <<>>]

NextRace ==
  \E r \in Runs :
    \/ transferCommand(r)
    \/ getTokenAddress(r)
    \/ getBalance(r)
    \/ isApprovalRequired(r)
    \/ getAllowance(r)
    \/ approveWrite(r)
    \/ approveWait(r)
    \/ \E h \in 1 .. 2 : Mine(r, h)

SpecRace == InitRace /\ [][NextRace]_vars

\* amounts in base units that the slippage computations are applied to
PureAmounts == {1, 2, 3, 199, 200, 10000, 20001, 100000}

\* --slippage values inside [0, 100), in thousandths of a percent: "0",
\* "0.005", "0.29", "0.5", "0.505", "1", "50", "99.99", "99.999"
SlippagePercents == {0, 5, 290, 500, 505, 1000, 50000, 99990, 99999}

\* --slippage values outside [0, 100): "-50", "-0.001", "100", "150"
OutOfRangeSlippage == {-50000, -1, 100000, 150000}

\* the three places where the Stargate code computes a minimum amount
MinAmountFunctions == {"calculateMinAmount", "transferCommand", "quoteCommand"}

InitPure ==
  /\ cachedRawConfig = ReadmeConfig
  /\ resolved = [tag |-> "none"]
  /\ computed = [fn |-> "none"]
  /\ approvalRequired = FALSE
  /\ tokenIsOft = FALSE
  /\ allowance = 0
  /\ balance = 0
  /\ txs = [r \in Runs |-> <<>>]
  /\ run = [r \in Runs |-> OffRun]
  /\ log = [r \in Runs |-> <<>>]

\* one of the slippage computations on any amount and any slippage; each
\* behaviour holds one call
MinAmountCall ==
  /\ computed.fn = "none"
  /\ \E fn \in MinAmountFunctions, amount \in PureAmounts,
        slippage \in SlippagePercents \cup OutOfRangeSlippage :
       computed' =
         [fn |-> fn, amount |-> amount, slippage |-> slippage,
          result |->
            CASE fn = "calculateMinAmount"
                   -> calculateStargateMinAmount(amount, slippage)
              [] fn = "transferCommand"
                   -> StargateMinAmount(amount, slippage)
              [] fn = "quoteCommand"
                   -> QuoteMinAmount(amount, slippage)]
  /\ UNCHANGED <<cachedRawConfig, resolved, approvalRequired, tokenIsOft,
                 allowance, balance, txs, run, log>>

\* fetchStargateQuote on any response
FetchQuoteCall ==
  /\ computed.fn = "none"
  /\ \E response \in Responses :
       computed' = [fn |-> "fetchStargateQuote", response |-> response,
                    result |-> fetchStargateQuote(response)]
  /\ UNCHANGED <<cachedRawConfig, resolved, approvalRequired, tokenIsOft,
                 allowance, balance, txs, run, log>>

NextPure == MinAmountCall \/ FetchQuoteCall

SpecPure == InitPure /\ [][NextPure]_vars


\* ------------------------------------------------------------------------
\* Properties
\* ------------------------------------------------------------------------
StageOrder == <<"balance", "approval", "quote", "send">>

StageIndex(stage) == CHOOSE k \in 1 .. 4 : StageOrder[k] = stage

IsPrefix(s, t) ==
  /\ Len(s) <= Len(t)
  /\ \A k \in 1 .. Len(s) : s[k] = t[k]

Calls(r) == {log[r][k].call : k \in DOMAIN log[r]}

C2_InsufficientBalanceStops ==
  \A r \in Runs :
    (run[r].kind \in {"oft", "stargate"} /\ run[r].balance # NoValue
       /\ run[r].balance < run[r].amountLD) =>
      /\ run[r].outcome = "insufficient_balance"
      /\ Calls(r) \subseteq {"token", "balanceOf"}
      /\ txs[r] = <<>>

\* a run that read a balance below the amount
C2_Witness ==
  \E r \in Runs :
    /\ run[r].kind = "oft"
    /\ run[r].balance # NoValue
    /\ run[r].balance < run[r].amountLD
    /\ run[r].pc = "exit"

\* C3: when the quote previews a received amount below minAmountLD the run
\* fails and no send transaction is submitted.
C3_SlippageGate ==
  \A r \in Runs :
    (run[r].kind = "oft" /\ run[r].amountReceivedLD # NoValue
       /\ run[r].amountReceivedLD < run[r].minAmountLD) =>
      /\ "send" \notin Calls(r)
      /\ Submitted(r, "send") = {}
      /\ run[r].pc \notin {"send_write", "send_wait"}
      /\ run[r].outcome # "sent"

\* C4: a dry run never submits the bridging transaction (the OFT send or a
\* Stargate step), and once its quote stage has completed it has ended with
\* the dry-run outcome and shows neither a transaction hash nor a GUID.
C4_DryRunStops ==
  \A r \in Runs :
    run[r].dryRun =>
      /\ Submitted(r, "send") = {}
      /\ Submitted(r, "step") = {}
      /\ {"send", "sendTransaction"} \cap Calls(r) = {}
      /\ "quote" \in run[r].completed =>
           /\ run[r].pc = "exit"
           /\ run[r].outcome = "dry_run_complete"
           /\ run[r].shownTxHash = 0
           /\ run[r].shownGuid = "none"

\* a dry run that got its quote
C4_Witness ==
  \E r \in Runs :
    /\ run[r].dryRun
    /\ "quote" \in run[r].completed
    /\ run[r].outcome = "dry_run_complete"

\* C5: an OFT run with --dry-run submits no transaction of any kind.
C5_DryRunSubmitsNothing ==
  \A r \in Runs :
    (run[r].kind = "oft" /\ run[r].dryRun) =>
      /\ txs[r] = <<>>
      /\ "approve" \notin Calls(r)

\* position in the log of the allowance read of call n of checkAndApprove
AllowanceReads(r, n) ==
  {k \in DOMAIN log[r] : log[r][k].call = "allowance" /\ log[r][k].n = n}

C7_NoApprovalNoReads ==
  \A r \in Runs :
    run[r].needsApproval = "no" =>
      /\ run[r].approvalResults # <<>>
      /\ run[r].approvalResults[Len(run[r].approvalResults)] =
           [approved |-> "false", txHash |-> 0]
      /\ \A k \in DOMAIN log[r] :
           (log[r][k].stage = "approval" /\ log[r][k].n = run[r].callNo)
             => log[r][k].call = "approvalRequired"
      /\ Submitted(r, "approve") = {}

\* checkAndApprove returned after approvalRequired() said false
C7_Witness ==
  \E r \in Runs :
    /\ run[r].needsApproval = "no"
    /\ run[r].approvalResults # <<>>
    /\ "approvalRequired" \in Calls(r)

\* the descriptor of a key in one network's table
DescriptorIn(k, network) ==
  buildChainConfig(toLowerCase(k), NetworkTable(network)[toLowerCase(k)],
                   network)

\* C8: with source and destination both in mesh pyusd and the destination
\* also in mesh pyusd0, the result is the pyusd descriptor of both.
C8_BothInPyusd ==
  (/\ resolved.tag = "call"
   /\ InPyusd(resolved.sourceKey) /\ InPyusd(resolved.destKey)
   /\ InPyusd0(resolved.destKey)) =>
    /\ resolved.result.tag = "ok"
    /\ resolved.result.value.srcConfig =
         DescriptorIn(resolved.sourceKey, "pyusd")
    /\ resolved.result.value.dstConfig =
         DescriptorIn(resolved.destKey, "pyusd")

\* such a call, with a source that is in both meshes as well
C8_Witness ==
  /\ resolved.tag = "call"
  /\ InPyusd(resolved.sourceKey) /\ InPyusd0(resolved.sourceKey)
  /\ InPyusd(resolved.destKey) /\ InPyusd0(resolved.destKey)
  /\ resolved.sourceKey # resolved.destKey
  /\ resolved.result.tag = "ok"

\* C9: a source in only one mesh and a destination in only the other mesh
\* make the resolution fail, with no descriptor pair returned.
C9_UnsupportedRoute ==
  (/\ resolved.tag = "call"
   /\ InPyusd(resolved.sourceKey) # InPyusd0(resolved.sourceKey)
   /\ InPyusd(resolved.destKey) # InPyusd0(resolved.destKey)
   /\ InPyusd(resolved.sourceKey) # InPyusd(resolved.destKey)) =>
    resolved.result.tag = "err"

\* C10: every returned pair has both descriptors in the same mesh.
C10_SameMesh ==
  (resolved.tag = "call" /\ resolved.result.tag = "ok") =>
    resolved.result.value.srcConfig.network =
      resolved.result.value.dstConfig.network

\* C11: getChainConfig fails for every key that is in neither mesh table,
\* and resolveChainConfigsForTransfer fails whenever the source key or the
\* destination key is a member of no mesh; no descriptor is returned.
C11_UnknownKeyFails ==
  /\ (/\ resolved.tag = "lookup"
      /\ ~InPyusd(resolved.chainKey) /\ ~InPyusd0(resolved.chainKey))
       => resolved.result.tag = "err"
  /\ (/\ resolved.tag = "call"
      /\ \/ ~InPyusd(resolved.sourceKey) /\ ~InPyusd0(resolved.sourceKey)
         \/ ~InPyusd(resolved.destKey) /\ ~InPyusd0(resolved.destKey))
       => resolved.result.tag = "err"

\* the descriptor that the configuration file gives key k in a mesh
ConfiguredIn(k, network) ==
  [chainKey |-> toLowerCase(k),
   name |-> toLowerCase(k),
   tokenAddress |-> <<"token", network, toLowerCase(k)>>,
   oftAddress |-> <<"oft", network, toLowerCase(k)>>,
   network |-> network]

\* key k is in the table of the mesh
InMesh(k, network) == IF network = "pyusd" THEN InPyusd(k) ELSE InPyusd0(k)

\* C18: when the destination is a member of exactly one mesh and the source
\* is a member of that mesh too (possibly of both), the result is the pair
\* of descriptors of that mesh: the source's bridging contract is the one
\* configured for the destination's mesh.
C18_DestinationMeshWins ==
  \A network \in Networks :
    (/\ resolved.tag = "call"
     /\ InMesh(resolved.destKey, network)
     /\ \A other \in Networks \ {network} : ~InMesh(resolved.destKey, other)
     /\ InMesh(resolved.sourceKey, network)) =>
      /\ resolved.result.tag = "ok"
      /\ resolved.result.value.srcConfig =
           ConfiguredIn(resolved.sourceKey, network)
      /\ resolved.result.value.dstConfig =
           ConfiguredIn(resolved.destKey, network)

\* a source in both meshes sent to a destination that is only in pyusd0:
\* the source's pyusd0 contract is returned
C18_Witness ==
  /\ resolved.tag = "call"
  /\ InPyusd(resolved.sourceKey) /\ InPyusd0(resolved.sourceKey)
  /\ ~InPyusd(resolved.destKey) /\ InPyusd0(resolved.destKey)
  /\ resolved.result.tag = "ok"
  /\ resolved.result.value.srcConfig.oftAddress =
       <<"oft", "pyusd0", toLowerCase(resolved.sourceKey)>>

\* the calls of one kind that call n of checkAndApprove by run r issued
CallsOf(r, call, n) ==
  {i \in DOMAIN log[r] : log[r][i].call = call /\ log[r][i].n = n}

\* call n of checkAndApprove by run r has returned or thrown
Returned(r, n) == Len(run[r].approvalResults) >= (IF n = 0 THEN 1 ELSE n)

\* what call n of checkAndApprove by run r returned
ResultOf(r, n) == run[r].approvalResults[IF n = 0 THEN 1 ELSE n]

\* C16: when approval is required and the allowance read is at least the
\* amount, the call of checkAndApprove returns approved=false with no
\* transaction hash and issues no approve, in each of its calls.
C16_SufficientAllowanceNoTx ==
  \A r \in Runs :
    \A k \in DOMAIN run[r].allowanceReads :
      LET rd == run[r].allowanceReads[k]
      IN rd.value >= run[r].amountLD =>
           /\ CallsOf(r, "approve", rd.n) = {}
           /\ Returned(r, rd.n)
           /\ ResultOf(r, rd.n).approved = "false"
           /\ ResultOf(r, rd.n).txHash = 0

\* two successive calls that both read a sufficient allowance: both
\* returned approved=false and nothing was submitted
C16_Witness ==
  /\ run[1].kind = "twice" /\ run[1].pc = "exit"
  /\ approvalRequired
  /\ Len(run[1].allowanceReads) = 2
  /\ \A k \in 1 .. 2 : run[1].allowanceReads[k].value >= run[1].amountLD
  /\ \A k \in 1 .. 2 : run[1].approvalResults[k].approved = "false"
  /\ txs[1] = <<>>

\* C17: when approval is required and the allowance read is below the
\* amount, the call issues one approve, on the underlying token, with the
\* bridging contract as spender and 2^256-1 (at the scaled width) as the
\* amount; it returns approved=true with that transaction's hash, and only
\* after the receipt of the mined transaction was obtained; the transfer
\* run enters the quote stage only after that.
C17_InsufficientAllowanceApproves ==
  \A r \in Runs :
    \A k \in DOMAIN run[r].allowanceReads :
      LET rd == run[r].allowanceReads[k]
          approves == CallsOf(r, "approve", rd.n)
      IN rd.value < run[r].amountLD =>
           /\ Cardinality(approves) <= 1
           /\ \A i \in approves :
                /\ log[r][i].args.address = UnderlyingToken
                /\ log[r][i].args.spender = run[r].srcConfig.value.oftAddress
                /\ log[r][i].args.amountLD = 2 ^ UintBits - 1
           /\ (run[r].pc = "approve_wait" /\ run[r].callNo = rd.n)
                => Cardinality(approves) = 1
           /\ Returned(r, rd.n) =>
                \/ ResultOf(r, rd.n).approved = "thrown"
                \/ /\ ResultOf(r, rd.n).approved = "true"
                   /\ Cardinality(approves) = 1
                   /\ ResultOf(r, rd.n).txHash \in Submitted(r, "approve")
                   /\ LET tx == txs[r][ResultOf(r, rd.n).txHash]
                      IN /\ tx.amount = 2 ^ UintBits - 1
                         /\ tx.status # "pending"
                         /\ \A i \in approves : i <= tx.minedAt
                         /\ \E w \in CallsOf(r, "wait", rd.n) :
                              w > tx.minedAt
                         /\ \A q \in DOMAIN log[r] :
                              log[r][q].stage = "quote" => q > tx.minedAt
           /\ (/\ run[r].kind = "oft"
               /\ \E e \in DOMAIN run[r].entered :
                    run[r].entered[e] = "quote") =>
                /\ Returned(r, rd.n)
                /\ ResultOf(r, rd.n).approved = "true"

\* a transfer run that read an allowance below the amount, approved, saw
\* the approval confirmed and then got its quote
C17_Witness ==
  /\ run[1].kind = "oft"
  /\ Len(run[1].allowanceReads) = 1
  /\ run[1].allowanceReads[1].value < run[1].amountLD
  /\ Len(run[1].approvalResults) = 1
  /\ run[1].approvalResults[1].approved = "true"
  /\ txs[1][run[1].approvalResults[1].txHash].status = "success"
  /\ run[1].quote.tag = "ok"

\* C13: quoteSend makes the messaging-fee read and the preview read with
\* the same SendParam on the same bridging contract; a QuoteResult exists
\* only with the data of both reads, and when either read fails the call
\* fails and the command ends with no quote.
C13_QuoteWholeOrFailed ==
  \A r \in Runs :
    run[r].kind = "oft" =>
      LET fee == CallsOf(r, "quoteSend", 0)
          preview == CallsOf(r, "quoteOFT", 0)
      IN /\ Cardinality(fee) <= 1 /\ Cardinality(preview) <= 1
         /\ \A i \in fee :
              /\ log[r][i].args.address = run[r].srcConfig.value.oftAddress
              /\ log[r][i].args.amountLD = run[r].amountLD
              /\ log[r][i].args.minAmountLD = run[r].minAmountLD
         /\ \A j \in preview :
              \E i \in fee : i < j /\ log[r][i].args = log[r][j].args
         /\ run[r].quote.tag = "ok" =>
              /\ fee # {} /\ preview # {}
              /\ run[r].quote.value.messagingFee # "none"
              /\ run[r].quote.value.amountReceivedLD # NoValue
         /\ (fee # {} /\ run[r].quote.tag # "ok") =>
              \/ run[r].pc = "quoteSend_oft" /\ preview = {}
              \/ run[r].pc = "exit" /\ run[r].outcome = "failed"
         /\ run[r].quote.tag # "ok" =>
              /\ run[r].outcome \notin {"dry_run_complete", "sent"}
              /\ CallsOf(r, "send", 0) = {}

\* the fee read succeeded and the preview read failed: the command ended
\* with a failure and holds no quote
C13_Witness ==
  /\ run[1].kind = "oft"
  /\ run[1].messagingFee # "none"
  /\ CallsOf(1, "quoteOFT", 0) # {}
  /\ run[1].quote.tag # "ok"
  /\ run[1].pc = "exit" /\ run[1].outcome = "failed"

\* C14: the status command takes an empty message list as "not found" and
\* ends normally, and ends with a failure on a non-OK response.
C14_StatusNotFoundIsNormal ==
  \A r \in Runs :
    (run[r].kind = "status" /\ run[r].pc = "exit") =>
      /\ (/\ run[r].statusResponse.kind = "json"
          /\ run[r].statusResponse.data = <<>>) =>
           /\ run[r].outcome = "not_found"
           /\ run[r].outcome \notin FailureOutcomes
           /\ run[r].shownStatus = "none"
      /\ run[r].statusResponse.kind = "not_ok" =>
           /\ run[r].outcome = "status_failed"
           /\ run[r].outcome \in FailureOutcomes

\* a status run that got a JSON body with an empty data list
C14_Witness ==
  /\ run[1].kind = "status" /\ run[1].pc = "exit"
  /\ run[1].statusResponse.kind = "json"
  /\ run[1].statusResponse.hasData
  /\ run[1].statusResponse.data = <<>>
  /\ run[1].outcome = "not_found"

\* C12: for every amount > 0 and every slippage percent in [0, 100), the
\* minimum amount computed is at least 0 and at most the amount.
C12_MinAmountInRange ==
  (/\ computed.fn \in MinAmountFunctions
   /\ computed.amount > 0
   /\ computed.slippage >= 0 /\ computed.slippage < 100000) =>
    /\ 0 <= computed.result
    /\ computed.result <= computed.amount

\* a slippage inside the range that takes something off the amount and
\* leaves something of it
C12_Witness ==
  /\ computed.fn = "calculateMinAmount"
  /\ computed.slippage > 0 /\ computed.slippage < 100000
  /\ 0 < computed.result
  /\ computed.result < computed.amount

\* the candidates of a response that have no error, populated amounts and
\* at least one step
GoodCandidates(response) ==
  {i \in DOMAIN response.quotes :
     /\ response.kind = "json"
     /\ ~response.quotes[i].error
     /\ response.quotes[i].amounts
     /\ Len(response.quotes[i].steps) >= 1}

\* C15: fetchStargateQuote reports success exactly when a candidate of the
\* response has no error, populated amounts and at least one step;
\* bestQuote is the first such candidate in the order of the response; a
\* failure is returned as success=false, no quotes and an error message.
C15_FirstValidCandidate ==
  computed.fn = "fetchStargateQuote" =>
    LET good == GoodCandidates(computed.response)
        res == computed.result
    IN /\ res.success <=> good # {}
       /\ res.success =>
            /\ res.bestQuote.tag = "ok"
            /\ \E i \in good :
                 /\ \A j \in good : i <= j
                 /\ res.bestQuote.value = computed.response.quotes[i]
       /\ ~res.success =>
            /\ res.quotes = <<>>
            /\ res.error # "none"
            /\ res.bestQuote.tag = "null"

\* a response whose first candidate is not valid and whose second is
C15_Witness ==
  /\ computed.fn = "fetchStargateQuote"
  /\ Len(computed.response.quotes) = 2
  /\ GoodCandidates(computed.response) = {2}
  /\ computed.result.success
  /\ computed.result.bestQuote.value = computed.response.quotes[2]

\* C19: for every amount and every slippage percent in [0, 100), the
\* minimum amount computed equals
\* floor(amount * (10000 - round(slippagePercent * 100)) / 10000), the
\* basis points being slippagePercent * 100 rounded to the nearest integer.
C19_RoundedBasisPoints ==
  (/\ computed.fn \in MinAmountFunctions
   /\ computed.slippage >= 0 /\ computed.slippage < 100000) =>
    computed.result =
      (computed.amount * (10000 - ((computed.slippage + 5) \div 10)))
        \div 10000

\* C20: no quote request and no transaction is issued with a minimum
\* amount below 0 or above the amount: a slippage that gives one is
\* rejected before the request is built.
C20_OutOfRangeRejected ==
  \A r \in Runs :
    \A i \in DOMAIN log[r] :
      log[r][i].call \in {"quoteSend", "quoteOFT", "send", "fetchQuote"} =>
        /\ 0 <= log[r][i].args.minAmountLD
        /\ log[r][i].args.minAmountLD <= log[r][i].args.amountLD

\* C21: after a send whose receipt was obtained, the guid shown is the guid
\* of the first OFTSent event of that receipt, or '0x' when the receipt has
\* none, and never anything else; the tracking link is shown only when the
\* guid is not '0x'.
C21_GuidOrSentinel ==
  \A r \in Runs :
    /\ (run[r].kind = "oft" /\ run[r].outcome = "sent") =>
         /\ run[r].shownTxHash \in Submitted(r, "send")
         /\ LET tx == txs[r][run[r].shownTxHash]
            IN /\ tx.status # "pending"
               /\ tx.events = <<>> => run[r].shownGuid = "0x"
               /\ tx.events # <<>> => run[r].shownGuid = tx.events[1]
         /\ run[r].shownLink <=> run[r].shownGuid # "0x"
    /\ (run[r].kind = "oft" /\ run[r].outcome # "sent") =>
         ~run[r].shownLink /\ run[r].shownGuid = "none"

\* a send whose receipt holds two OFTSent events
C21_Witness ==
  /\ run[1].kind = "oft" /\ run[1].outcome = "sent"
  /\ Len(txs[1][run[1].shownTxHash].events) = 2
  /\ run[1].shownGuid = "guidB"
  /\ run[1].shownLink

\* no call of a stage is issued twice by the run, and the run submitted at
\* most one approval and at most one send
NoCallTwice(r) ==
  /\ \A i, j \in DOMAIN log[r] :
       (log[r][i].stage = log[r][j].stage /\ log[r][i].call = log[r][j].call)
         => i = j
  /\ Cardinality(Submitted(r, "approve")) <= 1
  /\ Cardinality(Submitted(r, "send")) <= 1

\* a run that has ended issues no call and submits nothing any more
EndedStaysEnded(r) ==
  run[r].pc = "exit" => log'[r] = log[r] /\ Len(txs'[r]) = Len(txs[r])

\* C22: in a transfer run no network call is made twice, whatever fails: at
\* most one approval and one send are submitted, and after a failed
\* submission or a failed confirmation wait the run submits nothing more.
C22_NoRetries ==
  /\ [](\A r \in Runs : run[r].kind = "oft" => NoCallTwice(r))
  /\ [][\A r \in Runs : run[r].kind = "oft" => EndedStaysEnded(r)]_vars

\* the approval was submitted and its confirmation wait failed while it
\* was pending: the run ended with that one transaction
C22_Witness ==
  /\ run[1].kind = "oft" /\ run[1].outcome = "failed"
  /\ Len(txs[1]) = 1 /\ txs[1][1].type = "approve"
  /\ txs[1][1].status = "pending"
  /\ CallsOf(1, "wait", 0) # {}

\* C23: every failure of a network call of a transfer run ends the run at
\* that call: the run is at its end with a failure, and the failed call is
\* the last one it issued; no failure is replaced by a default value.
C23_FailureAborts ==
  \A r \in Runs :
    run[r].kind = "oft" =>
      \A k \in DOMAIN run[r].failedAt :
        /\ run[r].pc = "exit"
        /\ run[r].outcome \in FailureOutcomes
        /\ run[r].failedAt[k] = Len(log[r])

\* the status names that the command has an indicator for
ClassifiedStatus ==
  {"CONFIRMING", "INFLIGHT", "DELIVERED", "FAILED", "BLOCKED",
   "PAYLOAD_STORED"}

\* C24: the status command shows a status name of the fixed set with its
\* indicator and any other status name unchanged, without failing, whatever
\* was shown before.
C24_StatusClassified ==
  \A r \in Runs :
    (/\ run[r].kind = "status" /\ run[r].pc = "exit"
     /\ run[r].statusResponse.kind = "json"
     /\ run[r].statusResponse.data # <<>>) =>
      LET name == run[r].statusResponse.data[1].name
      IN /\ run[r].outcome = "status_shown"
         /\ name \in ClassifiedStatus =>
              run[r].shownStatus \in
                {"+ DELIVERED", "~ INFLIGHT", "~ CONFIRMING", "x FAILED",
                 "! BLOCKED", "# PAYLOAD_STORED"}
         /\ name \notin ClassifiedStatus => run[r].shownStatus = name

\* the place in the log of the h-th sendTransaction of run r
SendTransactionAt(r, h) ==
  {j \in CallsOf(r, "sendTransaction", 0) :
     Cardinality({k \in CallsOf(r, "sendTransaction", 0) : k < j}) = h - 1}

\* C25: executeStargateTransfer submits the steps of the quote in their
\* order, step i+1 only after the receipt of step i's transaction was
\* obtained, and submits nothing after a submission or a wait failed.
C25_StepsInSequence ==
  \A r \in Runs :
    run[r].kind = "stargate" =>
      /\ Len(txs[r]) <= Len(run[r].steps)
      /\ Len(txs[r]) <= run[r].i + 1
      /\ \A h \in DOMAIN txs[r] :
           /\ txs[r][h].step = run[r].steps[h]
           /\ h > 1 =>
                /\ txs[r][h - 1].status # "pending"
                /\ \A j \in SendTransactionAt(r, h) :
                     /\ j > txs[r][h - 1].minedAt
                     /\ \E w \in CallsOf(r, "wait", 0) :
                          txs[r][h - 1].minedAt < w /\ w < j
      /\ run[r].outcome = "transfer_failed" =>
           /\ run[r].pc = "exit"
           /\ run[r].failedAt = <<Len(log[r])>>

\* a quote of two steps, the second submitted after the first was mined
C25_Witness ==
  /\ run[1].kind = "stargate"
  /\ run[1].steps = <<"approve", "bridge">>
  /\ Len(txs[1]) = 2
  /\ txs[1][1].status = "success"

\* C26: when executeStargateTransfer returns a failure, every hash in its
\* txHashes, which the command reports as "Completed transactions", is of
\* a transaction whose receipt was obtained before the failure.
C26_CompletedWereConfirmed ==
  \A r \in Runs :
    (run[r].kind = "stargate" /\ run[r].outcome = "transfer_failed") =>
      \A k \in DOMAIN run[r].reportedCompleted :
        /\ k <= run[r].i
        /\ txs[r][run[r].reportedCompleted[k]].status # "pending"

\* the index of the last step of type bridge, or of the last step
LastBridge(steps) ==
  IF \E k \in DOMAIN steps : steps[k] = "bridge"
    THEN CHOOSE k \in DOMAIN steps :
           /\ steps[k] = "bridge"
           /\ \A m \in DOMAIN steps : steps[m] = "bridge" => m <= k
    ELSE Len(steps)

\* C29: executeStargateTransfer always returns a result: on success one
\* hash for each step of the quote, in step order, and as finalTxHash the
\* hash of the last bridge step, or of the last step when there is none;
\* on failure success=false, an error message and no finalTxHash.
C29_TransferResult ==
  \A r \in Runs :
    run[r].kind = "stargate" =>
      /\ (run[r].pc = "exit" /\ CallsOf(r, "sendTransaction", 0) # {})
           => run[r].sgResult # Null
      /\ run[r].outcome = "sent" =>
           /\ run[r].sgResult.success
           /\ Len(run[r].sgResult.txHashes) = Len(run[r].steps)
           /\ \A k \in DOMAIN run[r].steps :
                /\ run[r].sgResult.txHashes[k] = k
                /\ txs[r][k].step = run[r].steps[k]
           /\ run[r].sgResult.finalTxHash =
                run[r].sgResult.txHashes[LastBridge(run[r].steps)]
           /\ run[r].sgResult.error = "none"
      /\ run[r].outcome = "transfer_failed" =>
           /\ ~run[r].sgResult.success
           /\ run[r].sgResult.error # "none"
           /\ run[r].sgResult.finalTxHash = 0

\* a bridge step followed by another step, all confirmed
C29_Witness ==
  /\ run[1].kind = "stargate" /\ run[1].outcome = "sent"
  /\ run[1].steps = <<"bridge", "approve">>
  /\ run[1].sgResult.finalTxHash = 1

\* C28: whenever the source and the destination are members of one common
\* mesh, the resolution succeeds and the source descriptor it returns is
\* the one configured for the source in a mesh that the destination is a
\* member of too, whichever of the two keys is in both meshes.
C28_SourceInDestinationMesh ==
  (/\ resolved.tag = "call"
   /\ \E network \in Networks : /\ InMesh(resolved.sourceKey, network)
                                /\ InMesh(resolved.destKey, network)) =>
    /\ resolved.result.tag = "ok"
    /\ \E network \in Networks :
         /\ InMesh(resolved.sourceKey, network)
         /\ InMesh(resolved.destKey, network)
         /\ resolved.result.value.srcConfig =
              ConfiguredIn(resolved.sourceKey, network)

\* a source that is only in pyusd0 sent to a destination that is in both
\* meshes: the source's pyusd0 descriptor is returned
C28_Witness ==
  /\ resolved.tag = "call"
  /\ ~InPyusd(resolved.sourceKey) /\ InPyusd0(resolved.sourceKey)
  /\ InPyusd(resolved.destKey) /\ InPyusd0(resolved.destKey)
  /\ resolved.result.tag = "ok"
  /\ resolved.result.value.srcConfig.network = "pyusd0"

\* C27: nothing orders the approval check of one transfer run against the
\* approval of another. Each run decides from its own allowance read alone:
\* a run whose read was below its amount submits an approval whatever the
\* other run has read or has pending, and a run submits an approval only
\* after such a read. Two approval transactions of one owner for one
\* bridging contract, both pending, are therefore reachable.
C27_ApprovalsNotSerialized ==
  \A r \in Runs :
    /\ (/\ run[r].allowanceReads # <<>>
        /\ run[r].allowanceReads[1].value < run[r].amountLD) =>
         \/ run[r].pc = "approve_write"
         \/ \E i \in DOMAIN log[r] : log[r][i].call = "approve"
    /\ Submitted(r, "approve") # {} =>
         /\ run[r].allowanceReads # <<>>
         /\ run[r].allowanceReads[1].value < run[r].amountLD

\* both runs read the same insufficient allowance for the same bridging
\* contract, and both approvals are in the pool, neither confirmed
C27_Witness ==
  /\ \A r \in Runs : /\ run[r].kind = "oft"
                     /\ run[r].pc = "approve_wait"
                     /\ Len(run[r].allowanceReads) = 1
                     /\ run[r].allowanceReads[1].value < run[r].amountLD
                     /\ Submitted(r, "approve") = {run[r].hash}
                     /\ txs[r][run[r].hash].status = "pending"
  /\ run[1].srcConfig = run[2].srcConfig
  /\ run[1].allowanceReads[1].value = run[2].allowanceReads[1].value

\* the ways a transfer run that reached its first network call can end:
\* insufficient balance, a failure of a stage, dry run complete, sent
TerminalOutcomes ==
  {"insufficient_balance", "failed", "quote_failed", "transfer_failed",
   "dry_run_complete", "sent"}

\* run r is a transfer run that has reached its first network call
TransferStarted(r) ==
  run[r].kind \in {"oft", "stargate"} /\ run[r].entered # <<>>

\* C30: if every network call eventually returns or fails, a transfer run
\* that reached its first network call eventually ends, with one of the
\* terminal outcomes; once ended, it never changes again, so the outcome
\* is the only one; and a Stargate transfer never has submitted more
\* transactions than its quote has steps.
C30_Terminates ==
  /\ \A r \in Runs :
       TransferStarted(r) ~>
         (run[r].pc = "exit" /\ run[r].outcome \in TerminalOutcomes)
  /\ [][\A r \in Runs : run[r].pc = "exit" => run'[r] = run[r]]_vars
  /\ [](\A r \in Runs :
          run[r].kind = "stargate" => Len(txs[r]) <= Len(run[r].steps))

\* a Stargate transfer that ended as sent after as many transactions as
\* its quote has steps, more than one
C30_Witness ==
  \E r \in Runs :
    /\ run[r].kind = "stargate"
    /\ run[r].pc = "exit" /\ run[r].outcome = "sent"
    /\ Len(run[r].steps) > 1
    /\ Len(txs[r]) = Len(run[r].steps)


====
